---- MODULE Spec2Model ----
(***************************************************************************)
(* project-starter: the process supervision and output-throttling part.   *)
(*                                                                         *)
(* Three specifications over one set of variables:                         *)
(*   SpecChannel  one ThrottledOutputStream (ingest, prune timer,          *)
(*                teardown);                                               *)
(*   SpecLaunch   main()'s launch of a batch of one or two projects:       *)
(*                stagger timers, startProject with the global             *)
(*                pre-commands, result collection, memory monitor and the  *)
(*                SIGINT handler;                                          *)
(*   SpecStart    the same actions for a single project, with every        *)
(*                project configuration and log mode.                      *)
(* Time is in milliseconds, as in the source.  A timer fires when it is    *)
(* due; the clock does not pass a due timer.                               *)
(***************************************************************************)
EXTENDS Integers, Sequences, FiniteSets, TLC

(***************************************************************************)
(* Bounds of the model                                                     *)
(***************************************************************************)
MaxIngest == 3
MaxChTime == 3
MaxTime == 31000
TickMs == 10000
MaxOutput == 2

(***************************************************************************)
(* MEMORY_CONFIG                                                           *)
(***************************************************************************)
LINE_RETENTION_COUNT == 1000
LOG_RETENTION_WINDOW_MS == 15 * 60 * 1000
LOG_CLEANUP_INTERVAL_MS == 30 * 1000
STARTUP_DELAY_MS == 1000
MEMORY_CHECK_INTERVAL_MS == 30000
\* const TIMEOUT = 10000 in executeCommand
TIMEOUT == 10000

VARIABLES
    \* ---- ThrottledOutputStream ----
    maxLines, retentionWindowMs, cleanupIntervalMs,
    buffer, lineCount, cleanupTimer, cleanupDue,
    chState, chNow, forwarded, ingested,
    chSource,        \* where the constructor options of the channel came from
    \* ---- main() and startProject() ----
    config,          \* [projects, globalPreCommands]: the loaded configuration
    projectsToStart, \* the batch: a sequence of project names
    logMode,         \* args.logMode
    now,             \* Date.now() of the supervisor, ms since the batch began
    supervisor,      \* "launching", "supervising", "idle", "exited", "terminated", "crashed"
    pc,              \* per batch index: "delay", "pre", "step", "done"
    result,          \* per batch index: "pending", "null", "started", "rejected"
    cmds,            \* per batch index: the pre-commands executed so far, in spawn order
    main,            \* per batch index: the main process
    logFile,         \* per batch index: the writes to the project's log file
    processes,       \* the handles collected by main(), as batch indices
    monitor,         \* memoryMonitor: "none", "armed", "cleared"
    monitorDue,
    samples,         \* number of memory samples started
    shutdownLog,     \* what the SIGINT handler did, in order
    report,          \* what main() printed about the batch once it had settled
    sample,          \* the last memory sample printed by the monitor
    emitted,         \* per batch index: the chunks the main process wrote, in order
    consoleOut       \* per batch index: the chunks that came out of its console channels

chVars == <<maxLines, retentionWindowMs, cleanupIntervalMs, buffer, lineCount,
            cleanupTimer, cleanupDue, chState, chNow, forwarded, ingested, chSource>>

lnVars == <<config, projectsToStart, logMode, now, supervisor, pc, result, cmds, main,
            logFile, processes, monitor, monitorDue, samples, shutdownLog, report,
            sample, emitted, consoleOut>>

vars == <<chVars, lnVars>>

(***************************************************************************)
(* Generic helpers                                                         *)
(***************************************************************************)
Range(s) == {s[x] : x \in DOMAIN s}

(***************************************************************************)
(* ThrottledOutputStream                                                   *)
(*                                                                         *)
(* A chunk is a sequence of characters.  An option value is absent, NaN or *)
(* a number.                                                               *)
(***************************************************************************)
Num(n) == [kind |-> "num", val |-> n]
Absent == [kind |-> "absent", val |-> 0]
NaN == [kind |-> "nan", val |-> 0]

\* chunk.toString().split('\n')
RECURSIVE SplitLines(_)
SplitLines(chunk) ==
    IF \A x \in DOMAIN chunk : chunk[x] # "\n"
    THEN <<chunk>>
    ELSE LET p == CHOOSE x \in DOMAIN chunk :
                     /\ chunk[x] = "\n"
                     /\ \A y \in 1..(x - 1) : chunk[y] # "\n"
         IN <<SubSeq(chunk, 1, p - 1)>> \o SplitLines(SubSeq(chunk, p + 1, Len(chunk)))

\* line.trim() is a non-empty string
NonBlank(line) == \E x \in DOMAIN line : line[x] \notin {" ", "\n"}

\* options.maxLines || MEMORY_CONFIG.LINE_RETENTION_COUNT
OptMaxLines(opt) ==
    IF opt.kind = "num" /\ opt.val # 0 THEN opt.val ELSE LINE_RETENTION_COUNT

\* const v = option ?? default, without the test v > 0
OptOrDefault(opt, default) ==
    IF opt.kind = "num" THEN opt.val ELSE default

\* const v = option ?? default;  v > 0 ? v : default
OptPositiveOr(opt, default) ==
    IF opt.kind = "num" /\ opt.val > 0 THEN opt.val ELSE default

\* pushEntry without the over-capacity shift
PushEntryNoEvict(st, line, timestamp) ==
    [buf |-> Append(st.buf, [timestamp |-> timestamp, line |-> line]),
     cnt |-> st.cnt + 1,
     max |-> st.max]

\* pushEntry that puts the new entry at the head of the buffer
PushEntryPrepend(st, line, timestamp) ==
    LET pushed == [buf |-> <<[timestamp |-> timestamp, line |-> line]>> \o st.buf,
                   cnt |-> st.cnt + 1,
                   max |-> st.max]
    IN IF pushed.cnt > pushed.max
       THEN [pushed EXCEPT !.buf = SubSeq(pushed.buf, 1, Len(pushed.buf) - 1),
                           !.cnt = pushed.cnt - 1]
       ELSE pushed

\* pushEntry that drops the new entry, not the oldest, when over capacity
PushEntryDropNewest(st, line, timestamp) ==
    IF st.cnt + 1 > st.max
    THEN st
    ELSE [buf |-> Append(st.buf, [timestamp |-> timestamp, line |-> line]),
          cnt |-> st.cnt + 1,
          max |-> st.max]

\* pushEntry(line, timestamp) applied to the pair (buffer, lineCount)
PushEntry(st, line, timestamp) ==
    LET pushed == [buf |-> Append(st.buf, [timestamp |-> timestamp, line |-> line]),
                   cnt |-> st.cnt + 1,
                   max |-> st.max]
    IN IF pushed.cnt > pushed.max
       THEN [pushed EXCEPT !.buf = Tail(pushed.buf), !.cnt = pushed.cnt - 1]
       ELSE pushed

\* pruneExpired with an if in place of the while: at most one entry is removed
PruneExpiredOnce(st, nowMs, window) ==
    IF Len(st.buf) > 0 /\ st.buf[1].timestamp < nowMs - window
    THEN [st EXCEPT !.buf = Tail(st.buf), !.cnt = st.cnt - 1]
    ELSE st

\* pruneExpired(now) applied to the pair (buffer, lineCount)
RECURSIVE PruneExpired(_, _, _)
PruneExpired(st, nowMs, window) ==
    IF Len(st.buf) > 0 /\ st.buf[1].timestamp < nowMs - window
    THEN PruneExpired([st EXCEPT !.buf = Tail(st.buf), !.cnt = st.cnt - 1], nowMs, window)
    ELSE st

\* a loop that buffers every split line, blank ones included
RECURSIVE PushLinesAll(_, _, _)
PushLinesAll(st, lines, timestamp) ==
    IF Len(lines) = 0 THEN st
    ELSE PushLinesAll(PushEntry(st, Head(lines), timestamp), Tail(lines), timestamp)

\* the for loop of _transform over the split lines
RECURSIVE PushLines(_, _, _)
PushLines(st, lines, timestamp) ==
    IF Len(lines) = 0 THEN st
    ELSE PushLines(IF NonBlank(Head(lines))
                   THEN PushEntry(st, Head(lines), timestamp)
                   ELSE st,
                   Tail(lines), timestamp)

\* a push that is skipped for a chunk without any non-blank line
PushDownstreamSkipBlank(down, chunk) ==
    IF \E x \in DOMAIN SplitLines(chunk) : NonBlank(SplitLines(chunk)[x])
    THEN Append(down, chunk)
    ELSE down

\* this.push(chunk): what goes downstream for one ingested chunk
PushDownstream(down, chunk) == Append(down, chunk)

\* The chunks a run may ingest and the constructor options it may be given.
Chunks ==
    { <<"a">>, <<"b">>, <<"\n">>, <<"a", "\n", "b">>, <<" ", "\n">>,
      <<"b", "\n", "\n", "a">> }

ChannelOptions ==
    { [maxLines |-> Absent, retentionWindowMs |-> Absent, cleanupIntervalMs |-> Absent],
      [maxLines |-> Num(2), retentionWindowMs |-> Num(2), cleanupIntervalMs |-> Num(3)],
      [maxLines |-> Num(3), retentionWindowMs |-> Num(0), cleanupIntervalMs |-> Num(0)],
      [maxLines |-> Num(0), retentionWindowMs |-> Num(1), cleanupIntervalMs |-> Num(2)],
      [maxLines |-> Num(2), retentionWindowMs |-> NaN, cleanupIntervalMs |-> Num(-1)],
      [maxLines |-> Num(3), retentionWindowMs |-> Num(1), cleanupIntervalMs |-> Num(1)] }

\* new ThrottledOutputStream(options)
ChannelConstructed(options) ==
    /\ lineCount = 0
    /\ maxLines = OptMaxLines(options.maxLines)
    /\ retentionWindowMs = OptPositiveOr(options.retentionWindowMs, LOG_RETENTION_WINDOW_MS)
    /\ cleanupIntervalMs = OptPositiveOr(options.cleanupIntervalMs, LOG_CLEANUP_INTERVAL_MS)
    /\ buffer = <<>>
    /\ cleanupTimer = "armed"
    /\ cleanupDue = chNow + cleanupIntervalMs

\* no memory sample has been printed yet
NoSample ==
    [taken |-> FALSE, parentRss |-> 0, queries |-> <<>>, childMemory |-> [kind |-> "num", val |-> 0],
     totalMemory |-> [kind |-> "num", val |-> 0], level |-> "normal"]

\* nothing has been reported about the batch yet
NoReport == [settled |-> FALSE, successCount |-> 0, failed |-> <<>>]

\* the launcher's variables while only a channel is studied
LaunchIdle ==
    /\ projectsToStart = <<>>
    /\ config = [projects |-> <<>>, globalPreCommands |-> <<>>]
    /\ logMode = "console"
    /\ now = 0
    /\ supervisor = "idle"
    /\ pc = <<>>
    /\ result = <<>>
    /\ cmds = <<>>
    /\ main = <<>>
    /\ logFile = <<>>
    /\ processes = <<>>
    /\ monitor = "none"
    /\ monitorDue = 0
    /\ samples = 0
    /\ shutdownLog = <<>>
    /\ report = NoReport
    /\ sample = NoSample
    /\ emitted = <<>>
    /\ consoleOut = <<>>

ChSt == [buf |-> buffer, cnt |-> lineCount, max |-> maxLines]

\* _transform(chunk, encoding, callback)
Transform(chunk) ==
    /\ chState = "open"
    /\ Len(ingested) < MaxIngest
    /\ LET pushedAll == PushLines(ChSt, SplitLines(chunk), chNow)
           pruned == PruneExpired(pushedAll, chNow, retentionWindowMs)
       IN /\ buffer' = pruned.buf
          /\ lineCount' = pruned.cnt
    /\ forwarded' = PushDownstream(forwarded, chunk)
    /\ ingested' = Append(ingested, chunk)
    /\ UNCHANGED lnVars
    /\ UNCHANGED <<chSource, maxLines, retentionWindowMs, cleanupIntervalMs, cleanupTimer,
                   cleanupDue, chState, chNow>>

\* an interval callback that does not prune
CleanupTickIdle ==
    /\ cleanupTimer = "armed"
    /\ chNow >= cleanupDue
    /\ cleanupDue' = cleanupDue + cleanupIntervalMs
    /\ UNCHANGED lnVars
    /\ UNCHANGED <<chSource, maxLines, retentionWindowMs, cleanupIntervalMs, cleanupTimer,
                   chState, chNow, forwarded, ingested, buffer, lineCount>>

\* the setInterval callback: this.pruneExpired(Date.now())
CleanupTick ==
    /\ cleanupTimer = "armed"
    /\ chNow >= cleanupDue
    /\ LET pruned == PruneExpired(ChSt, chNow, retentionWindowMs)
       IN /\ buffer' = pruned.buf
          /\ lineCount' = pruned.cnt
    /\ cleanupDue' = cleanupDue + cleanupIntervalMs
    /\ UNCHANGED lnVars
    /\ UNCHANGED <<chSource, maxLines, retentionWindowMs, cleanupIntervalMs, cleanupTimer,
                   chState, chNow, forwarded, ingested>>

\* clearCleanupTimer that leaves the interval running
ClearCleanupTimerKeep(t) == t

\* clearCleanupTimer()
ClearCleanupTimer(t) == IF t # "null" THEN "null" ELSE t

\* _flush(callback): the writable side has ended
Flush ==
    /\ chState = "open"
    /\ cleanupTimer' = ClearCleanupTimer(cleanupTimer)
    /\ buffer' = <<>>
    /\ lineCount' = 0
    /\ chState' = "ended"
    /\ UNCHANGED lnVars
    /\ UNCHANGED <<chSource, maxLines, retentionWindowMs, cleanupIntervalMs, cleanupDue,
                   chNow, forwarded, ingested>>

\* _destroy(error, callback)
Destroy ==
    /\ chState \in {"open", "ended"}
    /\ cleanupTimer' = ClearCleanupTimer(cleanupTimer)
    /\ buffer' = <<>>
    /\ lineCount' = 0
    /\ chState' = "destroyed"
    /\ UNCHANGED lnVars
    /\ UNCHANGED <<chSource, maxLines, retentionWindowMs, cleanupIntervalMs, cleanupDue,
                   chNow, forwarded, ingested>>

\* Date.now() moves on; a due interval callback runs before the clock passes it
ChClock ==
    /\ chNow < MaxChTime
    /\ ~(cleanupTimer = "armed" /\ chNow >= cleanupDue)
    /\ chNow' = chNow + 1
    /\ UNCHANGED lnVars
    /\ UNCHANGED <<chSource, maxLines, retentionWindowMs, cleanupIntervalMs, buffer, lineCount,
                   cleanupTimer, cleanupDue, chState, forwarded, ingested>>

ChannelNext ==
    \/ \E chunk \in Chunks : Transform(chunk)
    \/ CleanupTick
    \/ Flush
    \/ Destroy
    \/ ChClock


(***************************************************************************)
(* Configuration: projects, pre-commands, batch                            *)
(*                                                                         *)
(* A command is a sequence of characters.                                  *)
(***************************************************************************)
IsSpace(c) == c \in {" ", "\n", "\t"}

\* String.prototype.trim()
RECURSIVE TrimStr(_)
TrimStr(str) ==
    IF Len(str) = 0 THEN str
    ELSE IF IsSpace(str[1]) THEN TrimStr(Tail(str))
    ELSE IF IsSpace(str[Len(str)]) THEN TrimStr(SubSeq(str, 1, Len(str) - 1))
    ELSE str

\* command.endsWith('&'), without the trim
IsBackgroundCommandNoTrim(command) == Len(command) > 0 /\ command[Len(command)] = "&"

\* command.trim().endsWith('&')
IsBackgroundCommand(command) ==
    LET t == TrimStr(command) IN Len(t) > 0 /\ t[Len(t)] = "&"

\* isBackgroundCommand ? command.trim().slice(0, -1).trim() : command
ActualCommand(command) ==
    IF IsBackgroundCommand(command)
    THEN LET t == TrimStr(command) IN TrimStr(SubSeq(t, 1, Len(t) - 1))
    ELSE command

FgCommand == <<"w">>
BgCommand == <<"s", " ", "&">>
BgCommandSp == <<"s", "&", " ">>

ProjectConfigs ==
    { [path |-> "exists", command |-> "set", preCommands |-> <<>>],
      [path |-> "exists", command |-> "set", preCommands |-> <<FgCommand>>],
      [path |-> "exists", command |-> "set", preCommands |-> <<BgCommand, FgCommand>>],
      [path |-> "missing", command |-> "set", preCommands |-> <<FgCommand>>],
      [path |-> "exists", command |-> "undefined", preCommands |-> <<>>] }

\* config.projects[name] is undefined
NoProject == [path |-> "none", command |-> "none", preCommands |-> <<>>]

GlobalPreCommandLists == { <<>>, <<FgCommand>>, <<BgCommandSp>> }

\* lines 656-657: --log-mode= takes any text; "verbose" stands for a value that is
\* none of the three modes
LogModes == {"console", "file", "both", "verbose"}

\* SpecLaunch: batches of one and two projects without pre-commands of their own
Batches == { <<"api">>, <<"api", "ui">> }

BatchProjectConfigs == {cfg \in ProjectConfigs : cfg.preCommands = <<>> \/ cfg.path = "missing"}

\* SpecStart: one project, every project configuration and log mode
SingleBatches == { <<"api">> }

Idx == DOMAIN projectsToStart

ProjectConfig(i) == config.projects[projectsToStart[i]]

\* global pre-commands that are run once for the batch, by its first project
PreCommandListGlobalOnce(i) ==
    (IF i = 1 THEN config.globalPreCommands ELSE <<>>) \o ProjectConfig(i).preCommands

\* the pre-commands startProject runs for batch index i, in the order of its two loops
PreCommandList(i) == config.globalPreCommands \o ProjectConfig(i).preCommands

NoMain == [state |-> "none", stdio |-> "none", channels |-> 0, spawnedAt |-> -1, code |-> -1]

\* main() up to line 788: the configuration is loaded, the arguments are parsed and
\* the start promises are created
LaunchInitOf(batches, projectConfigs, modes) ==
    /\ projectsToStart \in batches
    /\ \E gl \in GlobalPreCommandLists :
       \E pr \in [Range(projectsToStart) -> projectConfigs \cup {NoProject}] :
           config = [projects |-> pr, globalPreCommands |-> gl]
    /\ logMode \in modes
    /\ now = 0
    /\ supervisor = "launching"
    /\ pc = [i \in Idx |-> "delay"]
    /\ result = [i \in Idx |-> "pending"]
    /\ cmds = [i \in Idx |-> <<>>]
    /\ main = [i \in Idx |-> NoMain]
    /\ logFile = [i \in Idx |-> <<>>]
    /\ processes = <<>>
    /\ monitor = "none"
    /\ monitorDue = 0
    /\ samples = 0
    /\ shutdownLog = <<>>
    /\ report = NoReport
    /\ sample = NoSample
    /\ emitted = [i \in Idx |-> <<>>]
    /\ consoleOut = [i \in Idx |-> <<>>]

(***************************************************************************)
(* Scheduling: one event loop.  Promise continuations (microtasks) run     *)
(* before any timer, child-process event or signal handler.                *)
(***************************************************************************)
Alive == supervisor \in {"launching", "supervising", "idle"}

MicrotaskPending ==
    /\ supervisor = "launching"
    /\ \/ \E i \in Idx : pc[i] = "step"
       \/ \A i \in Idx : pc[i] = "done"

EventLoopTurn == Alive /\ ~MicrotaskPending

\* a queue in place of the offsets: a project's delay ends only after the project
\* before it has finished its start
StaggerDueQueued(i) ==
    IF i > 1 /\ pc[i - 1] # "done"
    THEN MaxTime + TickMs
    ELSE (i - 1) * STARTUP_DELAY_MS

\* every start promise begins at once, without the stagger delay
StaggerDueNone(i) == 0

\* index * MEMORY_CONFIG.STARTUP_DELAY_MS, counted from the start of the batch
StaggerDue(i) == (i - 1) * STARTUP_DELAY_MS

\* the deadlines of the timers that are armed
PendingDeadlines ==
    {StaggerDue(i) : i \in {j \in Idx : pc[j] = "delay"}}
    \cup UNION {{cmds[i][k].due : k \in {x \in DOMAIN cmds[i] : cmds[i][x].timer = "armed"}} : i \in Idx}
    \cup (IF monitor = "armed" THEN {monitorDue} ELSE {})

SetMin(S) == CHOOSE x \in S : \A y \in S : x <= y

(***************************************************************************)
(* main(): startPromises                                                   *)
(***************************************************************************)
\* startProject without the fs.existsSync check
StartRefusedNoPathCheck(i) == ProjectConfig(i) = NoProject

\* startProject that goes on without a project configuration
StartRefusedPathOnly(i) == ProjectConfig(i) # NoProject /\ ProjectConfig(i).path # "exists"

\* lines 269-282: startProject returns null without doing anything
StartRefused(i) == ProjectConfig(i) = NoProject \/ ProjectConfig(i).path # "exists"

\* lines 771-774: the stagger timer of batch index i fires and startProject begins
BeginStart(i) ==
    /\ EventLoopTurn
    /\ supervisor = "launching"
    /\ pc[i] = "delay"
    /\ now >= StaggerDue(i)
    /\ IF StartRefused(i)
       THEN /\ pc' = [pc EXCEPT ![i] = "done"]
            /\ result' = [result EXCEPT ![i] = "null"]
       ELSE /\ pc' = [pc EXCEPT ![i] = "step"]
            /\ UNCHANGED result
    /\ UNCHANGED chVars
    /\ UNCHANGED <<sample, emitted, consoleOut, config, projectsToStart, logMode, now, supervisor, cmds, main, logFile,
                   processes, monitor, monitorDue, samples, shutdownLog, report>>

SpawnOutcomes == {"ok", "errorEvent", "throws"}

\* executeCommand that resolves at once for every command, as it does for '&'
NewCmdNoAwait(command, outcome) ==
    [command |-> command,
     line |-> ActualCommand(command),
     detached |-> IsBackgroundCommand(command),
     state |-> CASE outcome # "ok" -> "notStarted"
                 [] IsBackgroundCommand(command) -> "detached"
                 [] OTHER -> "running",
     code |-> -1,
     startedAt |-> now,
     timer |-> "armed",
     due |-> now + TIMEOUT,
     warned |-> FALSE,
     resolvedBy |-> IF outcome = "throws" THEN "catch" ELSE "background",
     resolvedAt |-> now]

\* executeCommand with the timeout given in seconds to setTimeout
NewCmdShortTimer(command, outcome) ==
    [command |-> command,
     line |-> ActualCommand(command),
     detached |-> IsBackgroundCommand(command),
     state |-> CASE outcome # "ok" -> "notStarted"
                 [] IsBackgroundCommand(command) -> "detached"
                 [] OTHER -> "running",
     code |-> -1,
     startedAt |-> now,
     timer |-> "armed",
     due |-> now + (TIMEOUT \div 1000),
     warned |-> FALSE,
     resolvedBy |-> CASE outcome = "throws" -> "catch"
                      [] IsBackgroundCommand(command) -> "background"
                      [] outcome = "errorEvent" -> "error"
                      [] OTHER -> "none",
     resolvedAt |-> IF outcome = "ok" /\ ~IsBackgroundCommand(command) THEN -1 ELSE now]

\* the record of one executeCommand call
NewCmd(command, outcome) ==
    [command |-> command,
     line |-> ActualCommand(command),
     detached |-> IsBackgroundCommand(command),
     state |-> CASE outcome # "ok" -> "notStarted"
                 [] IsBackgroundCommand(command) -> "detached"
                 [] OTHER -> "running",
     code |-> -1,
     startedAt |-> now,
     timer |-> "armed",
     due |-> now + TIMEOUT,
     warned |-> FALSE,
     resolvedBy |-> CASE outcome = "throws" -> "catch"
                      [] IsBackgroundCommand(command) -> "background"
                      [] outcome = "errorEvent" -> "error"
                      [] OTHER -> "none",
     resolvedAt |-> IF outcome = "ok" /\ ~IsBackgroundCommand(command) THEN -1 ELSE now]

\* lines 287-350: executeCommand for the next pre-command of batch index i, up to
\* the await of the race
ExecuteCommand(i, outcome) ==
    /\ Alive
    /\ pc[i] = "step"
    /\ Len(cmds[i]) < Len(PreCommandList(i))
    /\ LET command == PreCommandList(i)[Len(cmds[i]) + 1]
           c == NewCmd(command, outcome)
       IN /\ cmds' = [cmds EXCEPT ![i] = Append(@, c)]
          /\ IF c.detached /\ outcome = "errorEvent"
             THEN \* no 'error' listener on a detached child: uncaught exception
                  /\ supervisor' = "crashed"
                  /\ UNCHANGED pc
             ELSE /\ pc' = [pc EXCEPT ![i] = IF c.resolvedBy = "none" THEN "pre" ELSE "step"]
                  /\ UNCHANGED supervisor
    /\ UNCHANGED chVars
    /\ UNCHANGED <<sample, emitted, consoleOut, config, projectsToStart, logMode, now, result, main, logFile,
                   processes, monitor, monitorDue, samples, shutdownLog, report>>

\* the race of the current pre-command of batch index i is still awaited on command k
Awaiting(i, k) == pc[i] = "pre" /\ k = Len(cmds[i]) /\ cmds[i][k].resolvedBy = "none"

\* lines 318-325: the 'close' event of pre-command k of batch index i.  Only a
\* foreground command has the listener; a detached one is unref'ed and never heard
\* of again.  The code of a command whose race is already resolved reaches nothing
\* but a console warning.
CommandClose(i, k, code) ==
    /\ EventLoopTurn
    /\ k \in DOMAIN cmds[i]
    /\ cmds[i][k].state = "running"
    /\ cmds' = [cmds EXCEPT ![i][k] =
                   IF Awaiting(i, k)
                   THEN [@ EXCEPT !.state = "exited", !.code = code,
                                  !.resolvedBy = "close", !.resolvedAt = now]
                   ELSE [@ EXCEPT !.state = "exited"]]
    /\ pc' = [pc EXCEPT ![i] = IF Awaiting(i, k) THEN "step" ELSE @]
    /\ UNCHANGED chVars
    /\ UNCHANGED <<sample, emitted, consoleOut, config, projectsToStart, logMode, now, supervisor, result, main, logFile,
                   processes, monitor, monitorDue, samples, shutdownLog, report>>

\* a timeout callback that also kills the command it gave up on
CommandTimeoutKills(i, k) ==
    /\ EventLoopTurn
    /\ k \in DOMAIN cmds[i]
    /\ cmds[i][k].timer = "armed"
    /\ now >= cmds[i][k].due
    /\ cmds' = [cmds EXCEPT ![i][k] =
                   IF Awaiting(i, k)
                   THEN [@ EXCEPT !.timer = "fired", !.warned = TRUE, !.state = "exited",
                                  !.resolvedBy = "timeout", !.resolvedAt = now]
                   ELSE [@ EXCEPT !.timer = "fired", !.warned = TRUE]]
    /\ pc' = [pc EXCEPT ![i] = IF Awaiting(i, k) THEN "step" ELSE @]
    /\ UNCHANGED chVars
    /\ UNCHANGED <<sample, emitted, consoleOut, config, projectsToStart, logMode, now,
                   supervisor, result, main, logFile, processes, monitor, monitorDue,
                   samples, shutdownLog, report>>

\* lines 334-346: the setTimeout callback of pre-command k of batch index i
CommandTimeout(i, k) ==
    /\ EventLoopTurn
    /\ k \in DOMAIN cmds[i]
    /\ cmds[i][k].timer = "armed"
    /\ now >= cmds[i][k].due
    /\ cmds' = [cmds EXCEPT ![i][k] =
                   IF Awaiting(i, k)
                   THEN [@ EXCEPT !.timer = "fired", !.warned = TRUE,
                                  !.resolvedBy = "timeout", !.resolvedAt = now]
                   ELSE [@ EXCEPT !.timer = "fired", !.warned = TRUE]]
    /\ pc' = [pc EXCEPT ![i] = IF Awaiting(i, k) THEN "step" ELSE @]
    /\ UNCHANGED chVars
    /\ UNCHANGED <<sample, emitted, consoleOut, config, projectsToStart, logMode, now, supervisor, result, main, logFile,
                   processes, monitor, monitorDue, samples, shutdownLog, report>>

\* one write to the log file
LogEntry(kind, tag, data, code) == [kind |-> kind, tag |-> tag, data |-> data, code |-> code]

\* lines 448-454: the start banner
StartBanner == <<LogEntry("banner", "", <<>>, -1)>>

\* line 470: the exit line
ExitLine(code) == LogEntry("exit", "", <<>>, code)

\* every chunk written to the file as standard output
FileChunkUntagged(stream, chunk) == LogEntry("chunk", "STDOUT", chunk, -1)

\* lines 458-464: `[STDOUT] ${data}` and `[STDERR] ${data}`
FileChunk(stream, chunk) ==
    LogEntry("chunk", IF stream = "stdout" THEN "STDOUT" ELSE "STDERR", chunk, -1)

\* a main process with piped stdio in every log mode
StdioConfigPipe(mode) == "pipe"

\* lines 376-381: stdioConfig
StdioConfig(mode) == IF mode = "file" THEN "inherit" ELSE "pipe"

\* what a main process writes: its k-th chunk, standard output and standard error
\* taking turns
OutputChunk(k) ==
    IF k % 2 = 1 THEN [stream |-> "stdout", data |-> <<"o", "\n">>]
    ELSE [stream |-> "stderr", data |-> <<"e">>]

\* lines 370-494: the main spawn of batch index i and the wiring of its output
SpawnMain(i, outcome, logDir) ==
    /\ Alive
    /\ pc[i] = "step"
    /\ Len(cmds[i]) = Len(PreCommandList(i))
    /\ LET stdio == StdioConfig(logMode)
           piped == logMode \in {"console", "both"}
           toFile == logMode \in {"file", "both"}
       IN CASE ProjectConfig(i).command # "set" \/ outcome = "throws" ->
                 \* command.split or spawn throws: the start promise rejects
                 /\ result' = [result EXCEPT ![i] = "rejected"]
                 /\ pc' = [pc EXCEPT ![i] = "done"]
                 /\ UNCHANGED <<main, logFile, supervisor>>
            [] ProjectConfig(i).command = "set" /\ outcome = "errorEvent" ->
                 \* no 'error' listener on the main child: uncaught exception
                 /\ main' = [main EXCEPT ![i] = [NoMain EXCEPT !.state = "notStarted",
                                                               !.stdio = stdio,
                                                               !.spawnedAt = now]]
                 /\ supervisor' = "crashed"
                 /\ UNCHANGED <<result, pc, logFile>>
            [] ProjectConfig(i).command = "set" /\ outcome = "ok" ->
                 /\ main' = [main EXCEPT ![i] = [state |-> "running", stdio |-> stdio,
                                                 channels |-> IF piped THEN 2 ELSE 0,
                                                 spawnedAt |-> now, code |-> -1]]
                 /\ pc' = [pc EXCEPT ![i] = "done"]
                 /\ IF toFile /\ logDir = "throws"
                    THEN /\ result' = [result EXCEPT ![i] = "rejected"]
                         /\ UNCHANGED logFile
                    ELSE /\ result' = [result EXCEPT ![i] = "started"]
                         /\ logFile' = [logFile EXCEPT ![i] =
                                           IF toFile THEN StartBanner ELSE @]
                 /\ UNCHANGED supervisor
    /\ UNCHANGED chVars
    /\ UNCHANGED <<sample, emitted, consoleOut, config, projectsToStart, logMode, now, cmds, processes, monitor,
                   monitorDue, samples, shutdownLog, report>>

\* a close handler that takes the other projects down when one exits non-zero
MainCloseKillsSiblings(i, code) ==
    /\ EventLoopTurn
    /\ main[i].state = "running"
    /\ main' = [j \in Idx |->
                  IF j = i THEN [main[j] EXCEPT !.state = "exited", !.code = code]
                  ELSE IF code # 0 /\ main[j].state = "running"
                       THEN [main[j] EXCEPT !.state = "exited", !.code = 1]
                       ELSE main[j]]
    /\ logFile' = [logFile EXCEPT ![i] = IF Len(@) > 0 THEN Append(@, ExitLine(code)) ELSE @]
    /\ UNCHANGED chVars
    /\ UNCHANGED <<sample, emitted, consoleOut, config, projectsToStart, logMode, now,
                   supervisor, pc, result, cmds, processes, monitor, monitorDue, samples,
                   shutdownLog, report>>

\* lines 468-472 and 481-487: the 'close' event of the main process of batch index i
MainClose(i, code) ==
    /\ EventLoopTurn
    /\ main[i].state = "running"
    /\ main' = [main EXCEPT ![i].state = "exited", ![i].code = code]
    /\ logFile' = [logFile EXCEPT ![i] = IF Len(@) > 0 THEN Append(@, ExitLine(code)) ELSE @]
    /\ UNCHANGED chVars
    /\ UNCHANGED <<sample, emitted, consoleOut, config, projectsToStart, logMode, now, supervisor, pc, result, cmds,
                   processes, monitor, monitorDue, samples, shutdownLog, report>>

RECURSIVE TotalEmitted(_)
TotalEmitted(k) == IF k = 0 THEN 0 ELSE Len(emitted[k]) + TotalEmitted(k - 1)

\* lines 414-434 and 457-465: the main process of batch index i writes a chunk.  With
\* piped stdio and the console wiring the chunk goes through the channel of its
\* stream and comes out of it; in `both` mode the 'data' listener of the log file
\* writes it as well.  With inherited stdio the supervisor does not see it.
MainOutput(i, chunk) ==
    /\ EventLoopTurn
    /\ main[i].state = "running"
    /\ TotalEmitted(Len(projectsToStart)) < MaxOutput
    /\ emitted' = [emitted EXCEPT ![i] = Append(@, chunk)]
    /\ consoleOut' = [consoleOut EXCEPT ![i] =
                         IF main[i].stdio = "pipe" /\ main[i].channels = 2
                         THEN PushDownstream(@, chunk)
                         ELSE @]
    /\ logFile' = [logFile EXCEPT ![i] =
                      IF main[i].stdio = "pipe" /\ logMode = "both" /\ Len(@) > 0
                      THEN Append(@, FileChunk(chunk.stream, chunk.data))
                      ELSE @]
    /\ UNCHANGED chVars
    /\ UNCHANGED <<sample, config, projectsToStart, logMode, now, supervisor, pc, result,
                   cmds, main, processes, monitor, monitorDue, samples, shutdownLog, report>>

\* lines 795-801: results.forEach collecting the handles
RECURSIVE CollectProcesses(_, _)
CollectProcesses(results, i) ==
    IF i > Len(results) THEN <<>>
    ELSE (IF results[i] = "started" THEN <<i>> ELSE <<>>) \o CollectProcesses(results, i + 1)

\* failedProjects that lists the rejected starts only
RECURSIVE FailedProjectsRejectedOnly(_, _)
FailedProjectsRejectedOnly(results, i) ==
    IF i > Len(results) THEN <<>>
    ELSE (IF results[i] = "rejected" THEN <<i>> ELSE <<>>)
         \o FailedProjectsRejectedOnly(results, i + 1)

\* lines 875-878: failedProjects
RECURSIVE FailedProjects(_, _)
FailedProjects(results, i) ==
    IF i > Len(results) THEN <<>>
    ELSE (IF results[i] = "rejected" \/ results[i] # "started" THEN <<i>> ELSE <<>>)
         \o FailedProjects(results, i + 1)

\* lines 785 and 799: the failure line printed for a start that returned null or
\* was rejected
RECURSIVE LoggedFailures(_, _)
LoggedFailures(results, i) ==
    IF i > Len(results) THEN <<>>
    ELSE (IF results[i] = "null" \/ results[i] = "rejected" THEN <<i>> ELSE <<>>)
         \o LoggedFailures(results, i + 1)

\* line 809: results.filter(r => r.status === 'fulfilled' && r.value).length
SuccessCount(results) == Cardinality({i \in DOMAIN results : results[i] = "started"})

\* Promise.all in place of Promise.allSettled: the first rejection rejects main(),
\* whose catch handler exits
SettleFailFast ==
    /\ supervisor = "launching"
    /\ \E i \in Idx : result[i] = "rejected"
    /\ supervisor' = "exited"
    /\ UNCHANGED chVars
    /\ UNCHANGED <<sample, emitted, consoleOut, config, projectsToStart, logMode, now, pc, result, cmds, main, logFile,
                   processes, monitor, monitorDue, samples, shutdownLog, report>>

\* lines 792-882: Promise.allSettled resolves and main() continues
Settle ==
    /\ supervisor = "launching"
    /\ \A i \in Idx : pc[i] = "done"
    /\ processes' = CollectProcesses(result, 1)
    /\ IF Len(processes') = 0
       THEN /\ supervisor' = "idle"
            /\ UNCHANGED <<monitor, monitorDue>>
       ELSE /\ supervisor' = "supervising"
            /\ monitor' = "armed"
            /\ monitorDue' = now + MEMORY_CHECK_INTERVAL_MS
    /\ report' = IF Len(processes') = 0
                  THEN \* line 804: nothing was started; only the failure lines name projects
                       [settled |-> TRUE, successCount |-> 0,
                        failed |-> LoggedFailures(result, 1)]
                  ELSE [settled |-> TRUE,
                        successCount |-> SuccessCount(result),
                        failed |-> FailedProjects(result, 1)]
    /\ UNCHANGED chVars
    /\ UNCHANGED <<sample, emitted, consoleOut, config, projectsToStart, logMode, now, pc, result, cmds, main, logFile,
                   samples, shutdownLog>>

(***************************************************************************)
(* Memory monitor.  A JavaScript number is Num(n) or NaN; arithmetic with   *)
(* NaN gives NaN and every comparison with NaN is false.                   *)
(***************************************************************************)
Add(a, b) == IF a.kind = "num" /\ b.kind = "num" THEN Num(a.val + b.val) ELSE NaN

Mul(a, b) == IF a.kind = "num" /\ b.kind = "num" THEN Num(a.val * b.val) ELSE NaN

Gt(a, b) == a.kind = "num" /\ b.kind = "num" /\ a.val > b.val

Digits == <<"0", "1", "2", "3", "4", "5", "6", "7", "8", "9">>

IsDigit(c) == \E d \in DOMAIN Digits : Digits[d] = c

DigitVal(c) == (CHOOSE d \in DOMAIN Digits : Digits[d] = c) - 1

RECURSIVE ParseDigits(_, _)
ParseDigits(str, acc) ==
    IF Len(str) = 0 \/ ~IsDigit(str[1]) THEN acc
    ELSE ParseDigits(Tail(str), acc * 10 + DigitVal(str[1]))

\* parseInt(str, 10) of an unsigned string: its leading decimal digits, NaN without any
ParseInt(str) ==
    IF Len(str) > 0 /\ IsDigit(str[1]) THEN Num(ParseDigits(str, 0)) ELSE NaN

\* What `ps -o rss= -p pid` can answer: it fails (no such process, no ps), or it
\* prints the resident set size of the process in KB.
PsResults ==
    { [error |-> TRUE, rssKB |-> 0, stdout |-> <<>>],
      [error |-> FALSE, rssKB |-> 10240,
       stdout |-> <<" ", "1", "0", "2", "4", "0", "\n">>],
      [error |-> FALSE, rssKB |-> 15360,
       stdout |-> <<"1", "5", "3", "6", "0", "\n">>] }

\* process.memoryUsage().rss of the supervisor, in bytes
ParentRssValues == {5 * 1024 * 1024, 40 * 1024 * 1024, 80 * 1024 * 1024}

\* getChildProcessMemory without the check of the error argument
GetChildProcessMemoryNoErrorCheck(q) == Mul(ParseInt(TrimStr(q.stdout)), Num(1024))

\* lines 67-97, the branch for macOS and Linux
GetChildProcessMemory(q) ==
    IF q.error THEN Num(0) ELSE Mul(ParseInt(TrimStr(q.stdout)), Num(1024))

\* proc && proc.pid
HasPid(p) == main[p].state \in {"running", "exited"}

\* the loop of getTotalChildProcessesMemory that keeps the last answer only
RECURSIVE GetTotalLastOnly(_, _, _, _)
GetTotalLastOnly(procs, queries, k, totalMemory) ==
    IF k > Len(procs) THEN totalMemory
    ELSE GetTotalLastOnly(procs, queries, k + 1,
             IF HasPid(procs[k]) THEN GetChildProcessMemory(queries[k]) ELSE totalMemory)

\* lines 100-111: the handles are queried one after the other, in order
RECURSIVE GetTotalChildProcessesMemory(_, _, _, _)
GetTotalChildProcessesMemory(procs, queries, k, totalMemory) ==
    IF k > Len(procs) THEN totalMemory
    ELSE GetTotalChildProcessesMemory(procs, queries, k + 1,
             IF HasPid(procs[k])
             THEN Add(totalMemory, GetChildProcessMemory(queries[k]))
             ELSE totalMemory)

TOTAL_THRESHOLD_WARNING == 50 * 1024 * 1024
TOTAL_THRESHOLD_DANGER == 100 * 1024 * 1024

\* thresholds that already count when the total reaches them
LevelInclusive(totalMemory) ==
    IF ~Gt(Num(TOTAL_THRESHOLD_DANGER), totalMemory) THEN "danger"
    ELSE IF ~Gt(Num(TOTAL_THRESHOLD_WARNING), totalMemory) THEN "warning"
    ELSE "normal"

\* lines 835-850: statusColor / statusIcon
Level(totalMemory) ==
    IF Gt(totalMemory, Num(TOTAL_THRESHOLD_DANGER)) THEN "danger"
    ELSE IF Gt(totalMemory, Num(TOTAL_THRESHOLD_WARNING)) THEN "warning"
    ELSE "normal"

\* lines 813-872: the memoryMonitor interval callback, with the queries it awaits
MemorySample ==
    /\ EventLoopTurn
    /\ monitor = "armed"
    /\ now >= monitorDue
    /\ samples' = samples + 1
    /\ monitorDue' = monitorDue + MEMORY_CHECK_INTERVAL_MS
    /\ \E parentRss \in ParentRssValues, queries \in [DOMAIN processes -> PsResults] :
          \* ps finds no process for the pid of a child that has exited
          /\ \A x \in DOMAIN processes :
                 main[processes[x]].state = "exited" => queries[x].error
          /\ LET childMemory == GetTotalChildProcessesMemory(processes, queries, 1, Num(0))
                 totalMemory == Add(Num(parentRss), childMemory)
             IN sample' = [taken |-> TRUE,
                           parentRss |-> parentRss,
                           queries |-> queries,
                           childMemory |-> childMemory,
                           totalMemory |-> totalMemory,
                           level |-> Level(totalMemory)]
    /\ UNCHANGED chVars
    /\ UNCHANGED <<emitted, consoleOut, config, projectsToStart, logMode, now, supervisor,
                   pc, result, cmds, main, logFile, processes, monitor, shutdownLog, report>>

\* processes.forEach without the try/catch: the first throw ends the loop
RECURSIVE KillAllAbort(_, _, _)
KillAllAbort(procs, outcomes, k) ==
    IF k > Len(procs) THEN <<>>
    ELSE <<[op |-> "kill", proc |-> procs[k], threw |-> outcomes[k] = "throws"]>>
         \o (IF outcomes[k] = "throws" THEN <<>> ELSE KillAllAbort(procs, outcomes, k + 1))

\* lines 892-898: processes.forEach with try { proc.kill() } catch {}
RECURSIVE KillAll(_, _, _)
KillAll(procs, outcomes, k) ==
    IF k > Len(procs) THEN <<>>
    ELSE <<[op |-> "kill", proc |-> procs[k], threw |-> outcomes[k] = "throws"]>>
         \o KillAll(procs, outcomes, k + 1)

\* lines 885-900: the SIGINT handler
SigintHandler(procs, outcomes) ==
    <<[op |-> "clearInterval", proc |-> 0, threw |-> FALSE]>>
    \o KillAll(procs, outcomes, 1)
    \o <<[op |-> "exit", proc |-> 0, threw |-> FALSE]>>

\* a SIGINT handler that also ends the pre-commands still running
SigintKillsCommands ==
    /\ EventLoopTurn
    /\ IF supervisor = "supervising"
       THEN \E outcomes \in [DOMAIN processes -> {"ok", "throws"}] :
               /\ \A x \in DOMAIN processes :
                      outcomes[x] = "throws" => main[processes[x]].state = "running"
               /\ shutdownLog' = SigintHandler(processes, outcomes)
               /\ monitor' = "cleared"
               /\ supervisor' = "exited"
               /\ cmds' = [i \in DOMAIN cmds |->
                              [k \in DOMAIN cmds[i] |->
                                  IF cmds[i][k].state \in {"running", "detached"}
                                  THEN [cmds[i][k] EXCEPT !.state = "exited"]
                                  ELSE cmds[i][k]]]
       ELSE /\ supervisor' = "terminated"
            /\ UNCHANGED <<shutdownLog, monitor, cmds>>
    /\ UNCHANGED chVars
    /\ UNCHANGED <<sample, emitted, consoleOut, config, projectsToStart, logMode, now, pc,
                   result, main, logFile, processes, monitorDue, samples, report>>

\* SIGINT arrives: the handler of line 885 once it is installed, the default
\* disposition (the supervisor is terminated) before
Sigint ==
    /\ EventLoopTurn
    /\ IF supervisor = "supervising"
       THEN \E outcomes \in [DOMAIN processes -> {"ok", "throws"}] :
               \* kill() of a child that has exited returns false, it does not throw
               /\ \A x \in DOMAIN processes :
                      outcomes[x] = "throws" => main[processes[x]].state = "running"
               /\ shutdownLog' = SigintHandler(processes, outcomes)
               /\ monitor' = "cleared"
               /\ supervisor' = "exited"
       ELSE /\ supervisor' = "terminated"
            /\ UNCHANGED <<shutdownLog, monitor>>
    /\ UNCHANGED chVars
    /\ UNCHANGED <<sample, emitted, consoleOut, config, projectsToStart, logMode, now, pc, result, cmds, main, logFile,
                   processes, monitorDue, samples, report>>

\* time passes, but not beyond a timer that is due
Tick ==
    /\ EventLoopTurn
    /\ now < MaxTime
    /\ \A d \in PendingDeadlines : d > now
    /\ now' = IF PendingDeadlines # {} /\ SetMin(PendingDeadlines) < now + TickMs
              THEN SetMin(PendingDeadlines)
              ELSE now + TickMs
    /\ UNCHANGED chVars
    /\ UNCHANGED <<sample, emitted, consoleOut, config, projectsToStart, logMode, supervisor, pc, result, cmds, main,
                   logFile, processes, monitor, monitorDue, samples, shutdownLog, report>>

LaunchNext ==
    \/ \E i \in Idx : BeginStart(i)
    \/ \E i \in Idx, outcome \in SpawnOutcomes : ExecuteCommand(i, outcome)
    \/ \E i \in Idx : \E k \in DOMAIN cmds[i], code \in {0, 1} : CommandClose(i, k, code)
    \/ \E i \in Idx : \E k \in DOMAIN cmds[i] : CommandTimeout(i, k)
    \/ \E i \in Idx, outcome \in SpawnOutcomes, logDir \in {"ok", "throws"} :
           SpawnMain(i, outcome, logDir)
    \/ \E i \in Idx : MainOutput(i, OutputChunk(Len(emitted[i]) + 1))
    \/ \E i \in Idx, code \in {0, 1} : MainClose(i, code)
    \/ Settle
    \/ MemorySample
    \/ Sigint
    \/ Tick

(***************************************************************************)
(* Specifications                                                          *)
(***************************************************************************)
\* JSON.parse gives any value for config.logBufferWindowMs; a string that is not a number
Str == [kind |-> "str", val |-> 0]

\* parseInt(str, 10) with an optional sign
ParseIntSigned(str) ==
    IF Len(str) > 0 /\ str[1] = "-"
    THEN Mul(Num(-1), ParseInt(Tail(str)))
    ELSE ParseInt(str)

\* lines 662-668: --log-buffer-window-min=<text> and --log-buffer-window-ms=<text>
ParseArgsWindow(flag, text) ==
    CASE flag = "min" -> Mul(ParseIntSigned(text), Num(60 * 1000))
      [] flag = "ms" -> ParseIntSigned(text)
      [] OTHER -> Absent

\* a JavaScript value in a boolean context
Truthy(v) == (v.kind = "num" /\ v.val # 0) \/ v.kind = "str"

\* line 778: args.logBufferWindowMs || config.logBufferWindowMs || null
LogBufferWindowMs(argv, cfgv) ==
    IF Truthy(argv) THEN argv ELSE IF Truthy(cfgv) THEN cfgv ELSE Absent

\* line 410: logBufferWindowMs !== null ? { retentionWindowMs: logBufferWindowMs } : {}
ThrottleOptions(argv, cfgv) ==
    [maxLines |-> Absent,
     retentionWindowMs |-> LogBufferWindowMs(argv, cfgv),
     cleanupIntervalMs |-> Absent]

\* The command lines and configuration files a run may be given for the buffer window.
WindowConfigs ==
    { [flag |-> "none", text |-> <<>>, cfg |-> Absent],
      [flag |-> "ms", text |-> <<"2">>, cfg |-> Absent],
      [flag |-> "ms", text |-> <<"0">>, cfg |-> Num(3)],
      [flag |-> "ms", text |-> <<"-", "5">>, cfg |-> Num(3)],
      [flag |-> "ms", text |-> <<"x">>, cfg |-> Str],
      [flag |-> "min", text |-> <<"2">>, cfg |-> Absent],
      [flag |-> "min", text |-> <<"x">>, cfg |-> Absent],
      [flag |-> "none", text |-> <<>>, cfg |-> Num(0)],
      [flag |-> "none", text |-> <<>>, cfg |-> Num(-1)] }

\* a channel made with options given by the caller of the constructor
DirectSource == [by |-> "options", flag |-> "none", text |-> <<>>, cfg |-> Absent]

\* a channel is constructed, with any options or the way startProject does it
ChannelInit ==
    /\ chNow = 0
    /\ chState = "open"
    /\ forwarded = <<>>
    /\ ingested = <<>>
    /\ \/ /\ chSource = DirectSource
          /\ \E options \in ChannelOptions : ChannelConstructed(options)
       \/ \E w \in WindowConfigs :
             /\ chSource = [by |-> "startProject", flag |-> w.flag, text |-> w.text,
                            cfg |-> w.cfg]
             /\ ChannelConstructed(ThrottleOptions(ParseArgsWindow(w.flag, w.text), w.cfg))
    /\ LaunchIdle

\* the channel's variables while only the launcher is studied
ChannelIdle ==
    /\ chNow = 0
    /\ chState = "open"
    /\ forwarded = <<>>
    /\ ingested = <<>>
    /\ chSource = DirectSource
    /\ ChannelConstructed([maxLines |-> Absent, retentionWindowMs |-> Absent,
                           cleanupIntervalMs |-> Absent])

SpecChannel == ChannelInit /\ [][ChannelNext]_vars

LaunchInit == LaunchInitOf(Batches, BatchProjectConfigs, {"console"}) /\ ChannelIdle

StartInit == LaunchInitOf(SingleBatches, ProjectConfigs, LogModes) /\ ChannelIdle

\* a batch of two startable projects, the second with a backgrounded pre-command of its
\* own, and a foreground global pre-command configured
PairBatches == { <<"api", "ui">> }

PlainProject == [path |-> "exists", command |-> "set", preCommands |-> <<>>]

OwnPreProject == [path |-> "exists", command |-> "set", preCommands |-> <<BgCommand>>]

PairInit ==
    /\ LaunchInitOf(PairBatches, {PlainProject, OwnPreProject}, {"console"})
    /\ config.projects["api"] = PlainProject
    /\ config.projects["ui"] = OwnPreProject
    /\ config.globalPreCommands = <<FgCommand>>
    /\ ChannelIdle

SpecLaunch == LaunchInit /\ [][LaunchNext]_vars

SpecPair == PairInit /\ [][LaunchNext]_vars

SpecStart == StartInit /\ [][LaunchNext]_vars

(***************************************************************************)
(* Properties                                                              *)
(***************************************************************************)
\* the non-blank lines of a sequence of chunks, in arrival order
RECURSIVE NonBlankLines(_)
NonBlankLines(chunks) ==
    IF Len(chunks) = 0 THEN <<>>
    ELSE SelectSeq(SplitLines(Head(chunks)), NonBlank) \o NonBlankLines(Tail(chunks))

HasBlankLine(chunk) == \E x \in DOMAIN SplitLines(chunk) : ~NonBlank(SplitLines(chunk)[x])

\* C1: between operations (ingest, prune tick, teardown) the buffer of a channel
\* never holds more than maxLines entries.
C1_BufferBounded == Len(buffer) <= maxLines /\ lineCount <= maxLines

\* more non-blank lines than maxLines were ingested and the buffer is full
C1_Witness ==
    /\ Len(NonBlankLines(ingested)) > maxLines
    /\ Len(buffer) = maxLines

\* C2: what went downstream is exactly the sequence of ingested chunks: each chunk
\* once, unmodified, in arrival order, whatever was buffered, evicted or pruned.
C2_ForwardedUnchanged == forwarded = ingested

\* chunks with blank lines were ingested and entries were evicted or pruned meanwhile
C2_Witness ==
    /\ Len(ingested) >= 2
    /\ \E x \in DOMAIN ingested : HasBlankLine(ingested[x])
    /\ \E x \in DOMAIN ingested : ~(\E y \in DOMAIN SplitLines(ingested[x]) :
                                      NonBlank(SplitLines(ingested[x])[y]))
    /\ Len(buffer) < Len(NonBlankLines(ingested))
    /\ chState = "open"

StartFailed(i) == result[i] \in {"null", "rejected"}

C4_ShutdownOrder ==
    /\ [](supervisor = "exited" =>
            /\ Len(shutdownLog) = Len(processes) + 2
            /\ shutdownLog[1].op = "clearInterval"
            /\ \A k \in DOMAIN processes :
                  shutdownLog[k + 1].op = "kill" /\ shutdownLog[k + 1].proc = processes[k]
            /\ shutdownLog[Len(shutdownLog)].op = "exit"
            /\ monitor = "cleared")
    /\ [][supervisor = "exited" => samples' = samples]_vars

\* two handles, the kill of the first threw and the second was still attempted
C4_Witness ==
    /\ supervisor = "exited"
    /\ Len(processes) = 2
    /\ shutdownLog[2].threw
    /\ shutdownLog[3].op = "kill"
    /\ ~shutdownLog[3].threw

KillAttempted(i) == \E x \in DOMAIN shutdownLog : shutdownLog[x].op = "kill" /\ shutdownLog[x].proc = i

\* C5: whenever a signal has ended the supervisor, a kill was attempted on every main
\* process that had been spawned by then.
C5_KillEverySpawned ==
    supervisor \in {"exited", "terminated"} =>
        \A i \in Idx : main[i].state \in {"running", "exited"} => KillAttempted(i)

\* a pre-command has resolved: it completed, could not be started, timed out, or
\* was detached
CmdResolved(c) ==
    \/ c.state \in {"exited", "notStarted", "detached"}
    \/ c.timer = "fired"

\* the declared order: the global pre-commands, then the project's own
DeclaredPreCommand(i, k) ==
    IF k <= Len(config.globalPreCommands)
    THEN config.globalPreCommands[k]
    ELSE ProjectConfig(i).preCommands[k - Len(config.globalPreCommands)]

DeclaredCount(i) == Len(config.globalPreCommands) + Len(ProjectConfig(i).preCommands)

\* C6: within one start the pre-commands are spawned in declared order, global ones
\* first, each only after the one before has resolved, and the main command only
\* after the last one has resolved.
C6_PreCommandOrder ==
    \A i \in Idx :
        /\ \A k \in DOMAIN cmds[i] :
              /\ k <= DeclaredCount(i)
              /\ cmds[i][k].command = DeclaredPreCommand(i, k)
              /\ k < Len(cmds[i]) =>
                    /\ CmdResolved(cmds[i][k])
                    /\ cmds[i][k].resolvedAt >= cmds[i][k].startedAt
                    /\ cmds[i][k].resolvedAt <= cmds[i][k + 1].startedAt
        /\ main[i].state # "none" =>
              /\ Len(cmds[i]) = DeclaredCount(i)
              /\ \A k \in DOMAIN cmds[i] :
                    CmdResolved(cmds[i][k]) /\ cmds[i][k].resolvedAt <= main[i].spawnedAt

\* a global and two project pre-commands, one detached and one that ran into its
\* timeout, and the main process running
C6_Witness ==
    \E i \in Idx :
        /\ Len(cmds[i]) = 3
        /\ Len(config.globalPreCommands) = 1
        /\ \E k \in DOMAIN cmds[i] : cmds[i][k].resolvedBy = "timeout"
        /\ \E k \in DOMAIN cmds[i] : cmds[i][k].resolvedBy = "background"
        /\ main[i].state = "running"

\* C7: a foreground pre-command that does not exit is waited for exactly TIMEOUT ms:
\* the caller is still waiting before that, proceeds when the timeout fires, and
\* takes its next step (next pre-command or main spawn) at that time.
C7_TimeoutProceeds ==
    \A i \in Idx : \A k \in DOMAIN cmds[i] :
        LET c == cmds[i][k] IN
        /\ Awaiting(i, k) => now <= c.startedAt + TIMEOUT
        /\ c.resolvedBy = "timeout" =>
              /\ c.resolvedAt = c.startedAt + TIMEOUT
              /\ k < Len(cmds[i]) => cmds[i][k + 1].startedAt = c.resolvedAt
              /\ (k = Len(cmds[i]) /\ main[i].state = "running") =>
                     main[i].spawnedAt = c.resolvedAt

\* a command still running after its timeout, and the caller gone on to the main spawn
C7_Witness ==
    \E i \in Idx : \E k \in DOMAIN cmds[i] :
        /\ cmds[i][k].resolvedBy = "timeout"
        /\ cmds[i][k].state = "running"
        /\ k = Len(cmds[i])
        /\ main[i].state = "running"
        /\ main[i].spawnedAt = cmds[i][k].startedAt + TIMEOUT

\* the characters of a command up to its last non-space one
RECURSIVE DropTrailingSpaces(_)
DropTrailingSpaces(str) ==
    IF Len(str) > 0 /\ str[Len(str)] = " "
    THEN DropTrailingSpaces(SubSeq(str, 1, Len(str) - 1))
    ELSE str

EndsInAmpersand(command) ==
    LET t == DropTrailingSpaces(command) IN Len(t) > 0 /\ t[Len(t)] = "&"

\* C8: a pre-command ending in '&' is spawned detached, without the marker, and the
\* caller never waits for it: it is resolved at the time it was spawned and the next
\* step is taken at that same time.
C8_BackgroundReturnsAtOnce ==
    \A i \in Idx : \A k \in DOMAIN cmds[i] :
        LET c == cmds[i][k] IN
        EndsInAmpersand(c.command) =>
            /\ c.detached
            /\ \A x \in DOMAIN c.line : c.line[x] # "&"
            /\ Len(c.line) > 0 /\ c.line[1] # " " /\ c.line[Len(c.line)] # " "
            /\ ~Awaiting(i, k)
            /\ supervisor # "crashed" => c.resolvedAt = c.startedAt
            /\ k < Len(cmds[i]) => cmds[i][k + 1].startedAt = c.startedAt
            /\ (k = Len(cmds[i]) /\ main[i].state = "running") =>
                   main[i].spawnedAt = c.startedAt

\* a detached command with a space after its marker, and the caller at the main spawn
C8_Witness ==
    \E i \in Idx : \E k \in DOMAIN cmds[i] :
        /\ cmds[i][k].command = BgCommandSp
        /\ cmds[i][k].state = "detached"
        /\ k = Len(cmds[i])
        /\ main[i].state = "running"

\* C9: a project whose working directory does not exist gets null from its start, with
\* no pre-command executed, no main process spawned and no log file opened.
C9_MissingPathFailsFast ==
    \A i \in Idx :
        (ProjectConfig(i) # NoProject /\ ProjectConfig(i).path = "missing") =>
            /\ pc[i] # "delay" => (pc[i] = "done" /\ result[i] = "null")
            /\ result[i] # "rejected"
            /\ cmds[i] = <<>>
            /\ main[i] = NoMain
            /\ logFile[i] = <<>>

\* such a project after its start, with pre-commands configured and a file log mode
C9_Witness ==
    \E i \in Idx :
        /\ ProjectConfig(i).path = "missing"
        /\ result[i] = "null"
        /\ PreCommandList(i) # <<>>
        /\ config.globalPreCommands # <<>>
        /\ logMode = "file"

\* C10: once the launch has settled every project is reported either started or failed,
\* never both, the success count is the number of handles held, and a project is
\* reported started exactly if its start returned a handle.
C10_ReportPartition ==
    report.settled =>
        /\ report.successCount + Len(report.failed) = Len(projectsToStart)
        /\ report.successCount = Len(processes)
        /\ \A i \in Idx :
              /\ (i \in Range(processes)) # (i \in Range(report.failed))
              /\ (i \in Range(processes)) <=> (result[i] = "started")
        /\ \A x, y \in DOMAIN processes : x # y => processes[x] # processes[y]
        /\ \A x, y \in DOMAIN report.failed : x # y => report.failed[x] # report.failed[y]

\* the scenario of the spec: the first project has no working directory, the second starts
C10_Witness ==
    /\ report.settled
    /\ Len(projectsToStart) = 2
    /\ ProjectConfig(1).path = "missing"
    /\ result[1] = "null"
    /\ result[2] = "started"
    /\ report.successCount = 1

\* C11: counted from the start of the batch at time 0, the start of the project at
\* 0-based index i (batch index i + 1 here) begins no earlier than i * 1000 ms: a
\* project that has left its stagger delay did so at or after that time, and so did
\* its pre-commands and its main spawn; the first project leaves it at time 0.
C11_StaggeredStart ==
    \A i \in Idx :
        /\ pc[i] # "delay" => now >= (i - 1) * 1000
        /\ \A k \in DOMAIN cmds[i] : cmds[i][k].startedAt >= (i - 1) * 1000
        /\ main[i].state # "none" => main[i].spawnedAt >= (i - 1) * 1000
        /\ result[i] # "pending" => now >= (i - 1) * 1000
        /\ (i = 1 /\ pc[i] = "delay" /\ Alive) => now = 0

\* a batch of two: the first main process was spawned at 0, the second at 1000
C11_Witness ==
    /\ Len(projectsToStart) = 2
    /\ main[1].state = "running"
    /\ main[1].spawnedAt = 0
    /\ main[2].state = "running"
    /\ main[2].spawnedAt = STARTUP_DELAY_MS

\* C12: when the main command of a project cannot be spawned, the start of that project
\* fails and nothing else does: the project is not reported started, its handle is not
\* tracked, and the supervisor is not brought down by it.
C12_SpawnFailureContained ==
    \A i \in Idx :
        main[i].state = "notStarted" =>
            /\ supervisor # "crashed"
            /\ result[i] # "started"
            /\ i \notin Range(processes)

\* C13: no outcome of a pre-command ends the launch: the supervisor is never brought
\* down by a pre-command that exited non-zero, could not be spawned or timed out, every
\* declared pre-command has been attempted once the start has a result, and a
\* pre-command that has resolved is followed by the next step.
C13_PreCommandNeverFatal ==
    \A i \in Idx :
        /\ supervisor = "crashed" => \E j \in Idx : main[j].state = "notStarted"
        /\ result[i] \in {"started", "rejected"} => Len(cmds[i]) = DeclaredCount(i)
        /\ \A k \in DOMAIN cmds[i] :
              (cmds[i][k].resolvedBy # "none" /\ k = Len(cmds[i])) => pc[i] # "pre"

\* C14: right after a prune pass run at time chNow, by the cleanup timer or inside the
\* ingest of a chunk, no retained entry is older than chNow - retentionWindowMs.
C14_PrunedAfterPass ==
    [][(CleanupTick \/ \E chunk \in Chunks : Transform(chunk)) =>
          \A x \in DOMAIN buffer' : buffer'[x].timestamp >= chNow - retentionWindowMs]_vars

\* entries have expired and were pruned while later ones are retained, with no eviction
\* for capacity
C14_Witness ==
    /\ chState = "open"
    /\ maxLines = LINE_RETENTION_COUNT
    /\ buffer # <<>>
    /\ Len(buffer) < Len(NonBlankLines(ingested))
    /\ \A x \in DOMAIN buffer : buffer[x].timestamp >= chNow - retentionWindowMs

SingleLine(chunk) == Len(SplitLines(chunk)) = 1 /\ NonBlank(chunk)

BufferLines == [x \in 1..Len(buffer) |-> buffer[x].line]

\* C15: eviction for capacity is first in, first out: while nothing can have expired
\* (the clock has not passed the retention window) and only single-line non-blank
\* chunks were ingested, k of them, the buffer holds the last min(k, maxLines) of
\* them in arrival order, and all k went downstream.
C15_FifoEviction ==
    (/\ chState = "open"
     /\ chNow <= retentionWindowMs
     /\ \A x \in DOMAIN ingested : SingleLine(ingested[x])) =>
        LET k == Len(ingested)
            m == IF k < maxLines THEN k ELSE maxLines
        IN /\ BufferLines = SubSeq(ingested, k - m + 1, k)
           /\ lineCount = m
           /\ forwarded = ingested

\* more single-line chunks than maxLines, the evicted one different from the last
C15_Witness ==
    /\ chState = "open"
    /\ chNow <= retentionWindowMs
    /\ \A x \in DOMAIN ingested : SingleLine(ingested[x])
    /\ Len(ingested) > maxLines
    /\ ingested[1] # ingested[Len(ingested)]
    /\ Len(buffer) = maxLines

\* the resident memory a query found, in bytes; nothing for a query that failed
Resident(q) == IF q.error THEN 0 ELSE q.rssKB * 1024

RECURSIVE SumResident(_, _)
SumResident(queries, S) ==
    IF S = {} THEN 0
    ELSE LET x == CHOOSE y \in S : TRUE
         IN Resident(queries[x]) + SumResident(queries, S \ {x})

\* C16: in a memory sample every tracked handle was queried, the child total is the sum
\* of what the queries found, the total is the parent's resident memory plus the child
\* total, and querying the handles in another order gives the same child total;
\* children of 10 MB and 15 MB with a parent of 5 MB give 30 MB.
C16_SampleTotal ==
    sample.taken =>
        /\ DOMAIN sample.queries = DOMAIN processes
        /\ sample.childMemory = Num(SumResident(sample.queries, DOMAIN processes))
        /\ sample.totalMemory = Num(sample.parentRss + sample.childMemory.val)
        /\ \A p \in Permutations(DOMAIN processes) :
              GetTotalChildProcessesMemory([x \in DOMAIN processes |-> processes[p[x]]],
                                           [x \in DOMAIN processes |-> sample.queries[p[x]]],
                                           1, Num(0)) = sample.childMemory
        /\ (/\ sample.parentRss = 5 * 1024 * 1024
            /\ {Resident(sample.queries[x]) : x \in DOMAIN processes}
                   = {10 * 1024 * 1024, 15 * 1024 * 1024}) =>
               sample.totalMemory = Num(30 * 1024 * 1024)

\* the scenario of the claim: two children of 10 MB and 15 MB, the parent of 5 MB
C16_Witness ==
    /\ sample.taken
    /\ Len(processes) = 2
    /\ sample.parentRss = 5 * 1024 * 1024
    /\ Resident(sample.queries[1]) = 10 * 1024 * 1024
    /\ Resident(sample.queries[2]) = 15 * 1024 * 1024
    /\ sample.totalMemory = Num(30 * 1024 * 1024)

\* C17: a query that failed counts as zero and the sample is still completed: the child
\* total is the sum over the queries that succeeded, the parent's value is added, and
\* the total is a number that is not negative.
C17_FailedQueryIsZero ==
    sample.taken =>
        LET succeeded == {x \in DOMAIN sample.queries : ~sample.queries[x].error}
        IN /\ sample.totalMemory.kind = "num"
           /\ sample.totalMemory.val >= 0
           /\ sample.childMemory.kind = "num"
           /\ sample.childMemory.val = SumResident(sample.queries, succeeded)
           /\ sample.totalMemory.val = sample.parentRss + SumResident(sample.queries, succeeded)

\* the query of the first of two running children failed, the second answered 15 MB
C17_Witness ==
    /\ sample.taken
    /\ Len(processes) = 2
    /\ main[1].state = "running"
    /\ sample.queries[1].error
    /\ ~sample.queries[2].error
    /\ sample.childMemory = Num(15 * 1024 * 1024)
    /\ sample.totalMemory = Num(sample.parentRss + 15 * 1024 * 1024)

LogKinds(i) == [x \in DOMAIN logFile[i] |-> logFile[i][x].kind]

\* C19: in file mode a main process has inherited stdio and no console channel, nothing
\* it writes comes out of a console channel or reaches the log file, and the log
\* file holds the start banner and, once the process has exited, the exit line.
C19_FileModeInherits ==
    logMode = "file" =>
        \A i \in Idx :
            /\ main[i].stdio \in {"none", "inherit"}
            /\ main[i].channels = 0
            /\ consoleOut[i] = <<>>
            /\ LogKinds(i) \in {<<>>, <<"banner">>, <<"banner", "exit">>}
            /\ (result[i] = "started" /\ main[i].state = "running") =>
                   LogKinds(i) = <<"banner">>
            /\ (result[i] = "started" /\ main[i].state = "exited") =>
                   LogKinds(i) = <<"banner", "exit">>

\* a main process in file mode that wrote two chunks and exited
C19_Witness ==
    /\ logMode = "file"
    /\ \E i \in Idx :
          /\ Len(emitted[i]) = 2
          /\ main[i].state = "exited"
          /\ main[i].stdio = "inherit"
          /\ LogKinds(i) = <<"banner", "exit">>

\* what the log file of batch index i holds for the chunks the process wrote
ExpectedFileChunks(i) ==
    [x \in DOMAIN emitted[i] |->
        [kind |-> "chunk",
         tag |-> IF emitted[i][x].stream = "stdout" THEN "STDOUT" ELSE "STDERR",
         data |-> emitted[i][x].data,
         code |-> -1]]

\* C20: in both mode the log file of a started project holds one start banner, then
\* the chunks the process wrote so far, each with the prefix of its stream and in the
\* order written, the same chunks that came out of the console channels, then, once
\* the process has exited, one exit line with its exit code and nothing after it.
C20_BothModeFileOrder ==
    logMode = "both" =>
        \A i \in Idx :
            result[i] = "started" =>
                /\ consoleOut[i] = emitted[i]
                /\ main[i].state = "running" =>
                       logFile[i] = StartBanner \o ExpectedFileChunks(i)
                /\ main[i].state = "exited" =>
                       logFile[i] = StartBanner \o ExpectedFileChunks(i)
                                        \o <<[kind |-> "exit", tag |-> "", data |-> <<>>,
                                              code |-> main[i].code]>>

\* a run in both mode: a chunk on each stream, then a non-zero exit
C20_Witness ==
    /\ logMode = "both"
    /\ \E i \in Idx :
          /\ result[i] = "started"
          /\ main[i].state = "exited"
          /\ main[i].code = 1
          /\ Len(emitted[i]) = 2
          /\ emitted[i][1].stream = "stdout"
          /\ emitted[i][2].stream = "stderr"
          /\ Len(logFile[i]) = 4
          /\ logFile[i][2].tag = "STDOUT"
          /\ logFile[i][3].tag = "STDERR"
          /\ logFile[i][4].kind = "exit"

\* C21: when the launch has settled with no project started, no memory monitor is
\* armed and no sample is ever taken, no SIGINT handler runs, no handle is tracked,
\* and no main process that this run spawned is running.
C21_ZeroSuccessEndsClean ==
    (report.settled /\ report.successCount = 0) =>
        /\ monitor = "none"
        /\ samples = 0
        /\ shutdownLog = <<>>
        /\ supervisor \in {"idle", "terminated"}
        /\ processes = <<>>
        /\ \A i \in Idx : main[i].state # "running"

\* C22: a main process that has exited is not in the tracked set any more, and no kill
\* is attempted on it at shutdown.
C22_HandleReleasedOnExit ==
    \A i \in Idx :
        main[i].state = "exited" =>
            /\ i \notin Range(processes)
            /\ ~KillAttempted(i)

\* C23: a kill is attempted only by the SIGINT handler; no other step touches a running
\* main process: the exit of a project (whatever its code), a failed start, a
\* pre-command timeout and a memory sample (whatever its level) leave every other
\* main process as it was, and a running main process changes only by its own exit.
C23_KillOnlyAtShutdown ==
    /\ [](shutdownLog # <<>> => supervisor = "exited")
    /\ [][/\ shutdownLog' # shutdownLog => (supervisor = "supervising" /\ supervisor' = "exited")
          /\ Cardinality({i \in Idx : main'[i] # main[i]}) <= 1
          /\ \A i \in Idx :
                (main[i].state = "running" /\ main'[i] # main[i]) =>
                    \E code \in {0, 1} :
                        main'[i] = [main[i] EXCEPT !.state = "exited", !.code = code]
          /\ (MemorySample \/ Settle \/ \E i \in Idx : \E k \in DOMAIN cmds[i] : CommandTimeout(i, k))
                => main' = main]_vars

\* the first project has exited non-zero, a sample above the warning threshold was
\* printed, and the second project is still running
C23_Witness ==
    /\ Len(projectsToStart) = 2
    /\ main[1].state = "exited"
    /\ main[1].code = 1
    /\ sample.taken
    /\ sample.level = "warning"
    /\ main[2].state = "running"
    /\ supervisor = "supervising"

\* C24: the timeout of a foreground pre-command that is awaited resolves the wait and
\* leaves the command running; afterwards the record of that command changes only by
\* its own late exit, and that exit changes neither the progress of the start, nor
\* its result, nor any main process.
C24_TimeoutLeavesRunning ==
    [][\A i \in Idx : \A k \in DOMAIN cmds[i] :
          /\ (CommandTimeout(i, k) /\ Awaiting(i, k)) =>
                /\ cmds'[i][k].state = "running"
                /\ cmds'[i][k].resolvedBy = "timeout"
          /\ cmds[i][k].resolvedBy = "timeout" =>
                /\ \/ cmds'[i][k] = cmds[i][k]
                   \/ /\ cmds[i][k].state = "running"
                      /\ cmds'[i][k] = [cmds[i][k] EXCEPT !.state = "exited"]
                /\ cmds'[i][k] # cmds[i][k] =>
                      /\ pc' = pc
                      /\ result' = result
                      /\ main' = main
                      /\ supervisor' = supervisor
                      /\ report' = report
                      /\ Len(cmds'[i]) = Len(cmds[i])]_vars

\* a pre-command that ran into its timeout and exited after the main process had been
\* spawned at the time of the timeout
C24_Witness ==
    \E i \in Idx : \E k \in DOMAIN cmds[i] :
        /\ cmds[i][k].resolvedBy = "timeout"
        /\ cmds[i][k].state = "exited"
        /\ main[i].state = "running"
        /\ main[i].spawnedAt = cmds[i][k].startedAt + TIMEOUT
        /\ result[i] = "started"
        /\ now > main[i].spawnedAt

\* C25: no pre-command keeps a launch from settling: a start that has begun is at its
\* main spawn no later than DeclaredCount * TIMEOUT after its beginning, whatever its
\* pre-commands do, and the supervisor is never ended by a pre-command before the
\* launch has settled and the report is printed.
C25_LaunchSettlesInTime ==
    \A i \in Idx :
        /\ (pc[i] \in {"pre", "step"} /\ Alive) =>
               now <= (i - 1) * STARTUP_DELAY_MS + DeclaredCount(i) * TIMEOUT
        /\ main[i].state # "none" =>
               main[i].spawnedAt <= (i - 1) * STARTUP_DELAY_MS + DeclaredCount(i) * TIMEOUT
        /\ (supervisor = "crashed" /\ ~report.settled) =>
               \E j \in Idx : main[j].state = "notStarted"

\* C26: the start of the project at batch index i begins at its own offset,
\* (i - 1) * STARTUP_DELAY_MS after the start of the batch, whatever state the
\* projects before it are in: it is not in its delay any longer once that time has
\* come, and its first step (first pre-command, or main spawn when it has none) is
\* taken at exactly that time.
C26_OffsetNotQueue ==
    \A i \in Idx :
        /\ (pc[i] = "delay" /\ Alive) => now <= (i - 1) * STARTUP_DELAY_MS
        /\ Len(cmds[i]) > 0 => cmds[i][1].startedAt = (i - 1) * STARTUP_DELAY_MS
        /\ (DeclaredCount(i) = 0 /\ main[i].state # "none") =>
               main[i].spawnedAt = (i - 1) * STARTUP_DELAY_MS

\* two projects of one batch waiting for a pre-command at the same time
C26_Witness ==
    /\ Len(projectsToStart) = 2
    /\ pc[1] = "pre"
    /\ pc[2] = "pre"
    /\ cmds[1][1].state = "running"
    /\ cmds[2][1].state = "running"
    /\ cmds[2][1].startedAt = STARTUP_DELAY_MS

\* C27: while a channel is open its prune timer is armed and its next tick is at most
\* one interval away, and no entry is in the buffer longer than
\* retentionWindowMs + cleanupIntervalMs after it was appended.
C27_BoundedStay ==
    chState = "open" =>
        /\ cleanupTimer = "armed"
        /\ chNow <= cleanupDue
        /\ cleanupDue - chNow <= cleanupIntervalMs
        /\ \A x \in DOMAIN buffer :
              chNow - buffer[x].timestamp <= retentionWindowMs + cleanupIntervalMs

\* an entry that has been in the buffer for the window plus one interval, the tick that
\* removes it being due
C27_Witness ==
    /\ chState = "open"
    /\ retentionWindowMs + cleanupIntervalMs <= MaxChTime
    /\ \E x \in DOMAIN buffer :
          chNow - buffer[x].timestamp = retentionWindowMs + cleanupIntervalMs
    /\ chNow = cleanupDue

\* C28: the entries of the buffer are in non-decreasing order of timestamp from the
\* oldest to the newest, so that when the oldest entry is not expired no entry is.
C28_TimestampOrder ==
    /\ \A x, y \in DOMAIN buffer : x < y => buffer[x].timestamp <= buffer[y].timestamp
    /\ (buffer # <<>> /\ ~(buffer[1].timestamp < chNow - retentionWindowMs)) =>
           \A x \in DOMAIN buffer : ~(buffer[x].timestamp < chNow - retentionWindowMs)

\* two entries of one chunk with the same timestamp, followed by a later one
C28_Witness ==
    /\ Len(buffer) >= 3
    /\ buffer[1].timestamp = buffer[2].timestamp
    /\ buffer[2].timestamp < buffer[3].timestamp

\* C29: a memory sample is taken only after the launch has settled with at least one
\* project started, only before the shutdown signal, and only while at least one
\* tracked main process is still running.
C29_SampleOnlyWhileRunning ==
    [][samples' # samples =>
          /\ report.settled
          /\ report.successCount > 0
          /\ supervisor = "supervising"
          /\ \E x \in DOMAIN processes : main[processes[x]].state = "running"]_vars

PositiveNum(v) == v.kind = "num" /\ v.val > 0

LeftRunning(c) ==
    \/ c.state = "detached"
    \/ c.state = "running" /\ c.resolvedBy = "timeout"

\* C32: the tracked handles are main processes of started projects only, one per
\* project at most; every kill of a shutdown goes to one of them, and a shutdown leaves
\* every pre-command process, backgrounded or timed out ones included, as it was.
C32_PreCommandsNeverKilled ==
    /\ [](/\ \A x \in DOMAIN processes :
                /\ processes[x] \in Idx
                /\ result[processes[x]] = "started"
                /\ main[processes[x]].state # "notStarted"
                /\ \A y \in DOMAIN processes : processes[y] = processes[x] => y = x
          /\ \A e \in Range(shutdownLog) :
                e.op = "kill" => \E x \in DOMAIN processes : processes[x] = e.proc)
    /\ [][Sigint => cmds' = cmds]_vars

\* a shutdown that killed a main process while a backgrounded or a timed-out
\* pre-command was left running
C32_Witness ==
    /\ supervisor = "exited"
    /\ \E e \in Range(shutdownLog) : e.op = "kill"
    /\ \E i \in Idx : \E k \in DOMAIN cmds[i] : LeftRunning(cmds[i][k])

\* C33: a batch name without a project configuration gets a null start at once: no
\* pre-command is run and nothing is spawned for it, and it is reported as failed; the
\* start of every other project is decided by its own configuration and spawn alone,
\* and every other project that started is tracked once the launch has settled.
C33_MissingConfigIsolated ==
    \A i \in Idx :
        ProjectConfig(i) = NoProject =>
            /\ cmds[i] = <<>>
            /\ main[i] = NoMain
            /\ result[i] \in {"pending", "null"}
            /\ pc[i] = "done" => result[i] = "null"
            /\ report.settled =>
                  /\ \E x \in DOMAIN report.failed : report.failed[x] = i
                  /\ \A x \in DOMAIN processes : processes[x] # i
                  /\ \A j \in Idx \ {i} :
                        /\ result[j] = "started"
                              => \E x \in DOMAIN processes : processes[x] = j
                        /\ (ProjectConfig(j) # NoProject /\ ProjectConfig(j).path = "exists")
                              => /\ Len(cmds[j]) = Len(PreCommandList(j))
                                 /\ result[j] \in {"started", "rejected"}

\* a settled batch of two: the first name has no configuration, the second project ran
\* a global pre-command, was started and is tracked
C33_Witness ==
    /\ report.settled
    /\ Len(projectsToStart) = 2
    /\ ProjectConfig(1) = NoProject
    /\ result[1] = "null"
    /\ Len(cmds[2]) > 0
    /\ processes = <<2>>

\* C34: a timeout warning is printed for a pre-command only if the timeout ended its
\* wait: a command that completed, failed to start or was detached is never warned
\* about, and its timer never fires.
C34_TimeoutOnlyIfUnfinished ==
    \A i \in Idx : \A k \in DOMAIN cmds[i] :
        (cmds[i][k].warned \/ cmds[i][k].timer = "fired")
            => cmds[i][k].resolvedBy = "timeout"

\* C35: once the launch has settled, every main process that is running is tracked in
\* `processes`, and a project reported as failed has no running main process.
C35_RunningMainTracked ==
    report.settled =>
        /\ \A i \in Idx :
              main[i].state = "running" => \E x \in DOMAIN processes : processes[x] = i
        /\ \A x \in DOMAIN report.failed : main[report.failed[x]].state # "running"

\* C36: a main process spawned with piped stdio has a reader on its standard output and
\* on its standard error, whatever the log mode.
C36_PipedOutputRead ==
    \A i \in Idx :
        (main[i].state \in {"running", "exited"} /\ main[i].stdio = "pipe")
            => main[i].channels = 2

\* C37: the buffered lines are a contiguous suffix, in arrival order, of the non-blank
\* lines ingested so far, and lineCount is the length of the buffer.
C37_BufferIsSuffix ==
    LET all == NonBlankLines(ingested)
    IN /\ lineCount = Len(buffer)
       /\ Len(buffer) <= Len(all)
       /\ BufferLines = SubSeq(all, Len(all) - Len(buffer) + 1, Len(all))

\* an open channel that ingested a blank line and has lost its oldest line while
\* keeping later ones
C37_Witness ==
    /\ chState = "open"
    /\ \E x \in DOMAIN ingested : HasBlankLine(ingested[x])
    /\ Len(buffer) > 0
    /\ Len(buffer) < Len(NonBlankLines(ingested))

\* C38: every project that is started runs the whole list of global pre-commands
\* itself, in order and before its own pre-commands, so that each global pre-command is
\* executed once per such project; a project begins its list at its own start offset,
\* whether or not the commands of another project are still running.
C38_GlobalPerProject ==
    \A i \in Idx :
        LET G == Len(config.globalPreCommands) IN
        ~StartRefused(i) =>
            /\ \A k \in DOMAIN cmds[i] :
                  /\ k <= G => cmds[i][k].command = config.globalPreCommands[k]
                  /\ k > G =>
                        /\ cmds[i][k].command = ProjectConfig(i).preCommands[k - G]
                        /\ \A g \in 1..G :
                              /\ CmdResolved(cmds[i][g])
                              /\ cmds[i][g].resolvedAt <= cmds[i][k].startedAt
            /\ cmds[i] # <<>> => cmds[i][1].startedAt = (i - 1) * STARTUP_DELAY_MS
            /\ main[i].state # "none" =>
                  Len(cmds[i]) = G + Len(ProjectConfig(i).preCommands)

\* the second project has finished the global pre-command and run its own, while the
\* first project's execution of the same global pre-command, begun earlier, is still
\* running
C38_Witness ==
    /\ Len(projectsToStart) = 2
    /\ Len(config.globalPreCommands) = 1
    /\ Len(cmds[1]) = 1
    /\ Len(cmds[2]) = 2
    /\ cmds[1][1].state = "running"
    /\ cmds[1][1].command = cmds[2][1].command
    /\ cmds[1][1].startedAt < cmds[2][1].startedAt
    /\ cmds[2][2].command = BgCommand

====
